---- MODULE Spec2Model ----
(***************************************************************************)
(* A model of the LiteratureReviewAgent repository: the prompt registry    *)
(* (built-in versions and override sets loaded from configuration files),  *)
(* the task-to-chunk routing and the analysis loop of the agent, and the   *)
(* command-line pipeline of main with its temporary download.              *)
(*                                                                         *)
(* A Python str is a sequence of fragments (TLA+ strings).  Text that the  *)
(* program inspects character by character (completion responses, error    *)
(* texts) is written with one-character fragments; template boilerplate is *)
(* written with one fragment per literal run.                              *)
(***************************************************************************)
EXTENDS Integers, Sequences, FiniteSets, TLC

\* ------------------------------------------------------------------ bounds

\* The largest number of chunks the splitter hands to analyze_paper.
MaxChunks == 5

\* The largest number of times a configuration file is rewritten on disk.
MaxEdits == 1

\* The largest number of reload() calls in one run.
MaxReloads == 2

\* The largest number of lines in a completion's content.
MaxLines == 3

MaxResolutions == 2

\* --------------------------------------------------------- Python helpers

Min(a, b) == IF a < b THEN a ELSE b

Max(a, b) == IF a > b THEN a ELSE b

\* A slice bound of s[lo:hi], normalised as Python does for a list of length n.
NormIndex(i, n) == IF i < 0 THEN Max(n + i, 0) ELSE Min(i, n)

\* s[lo:hi] of a Python list.
PySlice(s, lo, hi) ==
    LET n == Len(s)
        a == NormIndex(lo, n)
        b == NormIndex(hi, n)
    IN  IF a >= b THEN <<>> ELSE SubSeq(s, a + 1, b)

\* s[lo:] of a Python list.
PySliceFrom(s, lo) == PySlice(s, lo, Len(s))

RECURSIVE Join(_, _)
\* sep.join(parts): the parts in order, sep between two neighbours.
Join(sep, parts) ==
    IF Len(parts) = 0 THEN <<>>
    ELSE IF Len(parts) = 1 THEN parts[1]
    ELSE parts[1] \o sep \o Join(sep, Tail(parts))

\* The characters str.strip() removes.
Whitespace == {" ", "\t", "\n", "\r", "\f"}

RECURSIVE LStripChars(_, _)
\* s.lstrip(chars): drop leading characters that are in chars.
LStripChars(s, chars) ==
    IF Len(s) > 0 /\ Head(s) \in chars THEN LStripChars(Tail(s), chars) ELSE s

RECURSIVE RStripChars(_, _)
RStripChars(s, chars) ==
    IF Len(s) > 0 /\ s[Len(s)] \in chars
    THEN RStripChars(SubSeq(s, 1, Len(s) - 1), chars)
    ELSE s

\* s.strip()
Strip(s) == RStripChars(LStripChars(s, Whitespace), Whitespace)

\* s.startswith(prefix)
StartsWith(s, prefix) ==
    /\ Len(s) >= Len(prefix)
    /\ SubSeq(s, 1, Len(prefix)) = prefix

RECURSIVE SplitLines(_, _)
\* text.split('\n'), cur being the line collected so far.
SplitLines(text, cur) ==
    IF Len(text) = 0 THEN <<cur>>
    ELSE IF Head(text) = "\n" THEN <<cur>> \o SplitLines(Tail(text), <<>>)
    ELSE SplitLines(Tail(text), Append(cur, Head(text)))

\* ------------------------------------------------------------- templates

\* The dict literal with two entries exchanged.
TaskOrderSwapped == <<"summary", "key_findings", "contributions", "methodology", "limitations">>

\* The five analysis tasks, in the order analyze_paper runs them.
TaskOrder == <<"summary", "key_findings", "methodology", "contributions", "limitations">>

AnalysisTasks == {TaskOrder[i] : i \in 1..Len(TaskOrder)}

\* A template is a sequence of segments: literal text, or a {name} placeholder.
Lit(s) == [k |-> "lit", s |-> s]

Ph(name) == [k |-> "ph", s |-> name]

\* The outcome of a call: a returned string, or a raised exception.
Ok(v) == [ok |-> TRUE, val |-> v, err |-> "none", msg |-> "none"]

\* err is the exception class, msg what its message says.
Raise(e, m) == [ok |-> FALSE, val |-> <<>>, err |-> e, msg |-> m]

RECURSIVE FormatSegs(_, _)
FormatSegs(tpl, kwargs) ==
    IF Len(tpl) = 0 THEN <<>>
    ELSE (IF Head(tpl).k = "lit" THEN <<Head(tpl).s>> ELSE kwargs[Head(tpl).s])
         \o FormatSegs(Tail(tpl), kwargs)

\* template.format(**kwargs): every placeholder replaced by its argument; a
\* placeholder with no argument raises KeyError.
Format(tpl, kwargs) ==
    IF \E i \in 1..Len(tpl) : tpl[i].k = "ph" /\ tpl[i].s \notin DOMAIN kwargs
    THEN Raise("KeyError", "placeholder not supplied")
    ELSE Ok(FormatSegs(tpl, kwargs))

PromptVersions == {"v1_basic", "v2_detailed", "v3_structured", "experimental"}

V1Templates ==
    [t \in AnalysisTasks \cup {"system"} |->
        IF t = "system"
        THEN <<Lit("You are an expert academic researcher analyzing scientific papers.")>>
        ELSE <<Lit("v1 "), Lit(t), Lit(" Text: "), Ph("text"), Lit("\n")>>]

V2Templates ==
    [t \in AnalysisTasks \cup {"system"} |->
        IF t = "system"
        THEN <<Lit("You are an expert academic researcher with deep knowledge in literature analysis.")>>
        ELSE <<Lit("v2 "), Lit(t), Lit(" Text: "), Ph("text"), Lit("\n")>>]

V3Templates ==
    [t \in AnalysisTasks \cup {"system"} |->
        IF t = "system"
        THEN <<Lit("You are an expert academic researcher specializing in literature analysis.")>>
        ELSE IF t = "summary"
        THEN <<Lit("v3 "), Lit(t), Lit(" "), Ph("text"), Lit("\n")>>
        ELSE <<Lit("v3 "), Lit(t), Lit(" TEXT: "), Ph("text"), Lit("\n")>>]

\* The experimental version with its key_findings template missing too.
ExperimentalSummaryOnly ==
    [t \in {"system", "summary"} |->
        IF t = "system"
        THEN <<Lit("You are an AI research assistant. Provide detailed analysis with confidence scores.")>>
        ELSE <<Lit("experimental "), Lit(t), Lit(" Text: "), Ph("text"), Lit("\n")>>]

\* The experimental version defines the system message and two tasks only.
ExperimentalTemplates ==
    [t \in {"system", "summary", "key_findings"} |->
        IF t = "system"
        THEN <<Lit("You are an AI research assistant. Provide detailed analysis with confidence scores.")>>
        ELSE <<Lit("experimental "), Lit(t), Lit(" Text: "), Ph("text"), Lit("\n")>>]

\* PromptTemplates._load_templates: version value -> task -> template.
LoadTemplates ==
    [v \in PromptVersions |->
        CASE v = "v1_basic" -> V1Templates
          [] v = "v2_detailed" -> V2Templates
          [] v = "v3_structured" -> V3Templates
          [] OTHER -> ExperimentalTemplates]

\* PromptTemplates(version).get_prompt(task, **kwargs)
TemplatesGetPrompt(version, task, kwargs) ==
    LET set == LoadTemplates[version]
    IN  IF task \notin DOMAIN set \/ Len(set[task]) = 0
        THEN Raise("ValueError", "No template found for task")
        ELSE Format(set[task], kwargs)

\* get_prompt that reads the process-wide default_prompts whatever the version.
GetPromptDefaultOnly(defaultVersion, task, version, kwargs) ==
    TemplatesGetPrompt(defaultVersion, task, kwargs)

\* prompts.get_prompt(task, version, **kwargs); version "none" is Python's None
\* and selects the process-wide default_prompts.
GetPrompt(defaultVersion, task, version, kwargs) ==
    IF version # "none"
    THEN TemplatesGetPrompt(version, task, kwargs)
    ELSE TemplatesGetPrompt(defaultVersion, task, kwargs)

\* ------------------------------------------------- override configuration

\* A leaf of a configuration file: a template string, or a value of another type.
StrLeaf(tpl) == [isStr |-> TRUE, tpl |-> tpl]

\* The value a file gives a set name: a mapping task -> leaf.
SetOf(tasks) == [isMap |-> TRUE, tasks |-> tasks]

\* What a file holds: a mapping of set names to values, text the parser
\* rejects, or nothing at all (the parser returns None).
DictContent(sets) == [kind |-> "dict", sets |-> sets]

SyntaxErrorContent == [kind |-> "syntax", sets |-> <<>>]

EmptyContent == [kind |-> "empty", sets |-> <<>>]

\* One try block around the whole scan: a file that fails ends the load with
\* nothing registered.
ApplyFileAbort(prompts, content) ==
    IF content.kind = "dict"
    THEN [n \in DOMAIN prompts \cup DOMAIN content.sets |->
            IF n \in DOMAIN content.sets THEN content.sets[n] ELSE prompts[n]]
    ELSE <<>>

\* A deep merge: a set defined twice keeps the tasks of both definitions.
ApplyFileDeepMerge(prompts, content) ==
    IF content.kind = "dict"
    THEN [n \in DOMAIN prompts \cup DOMAIN content.sets |->
            IF n \in DOMAIN content.sets /\ n \in DOMAIN prompts
            THEN SetOf([t \in DOMAIN prompts[n].tasks \cup DOMAIN content.sets[n].tasks |->
                          IF t \in DOMAIN content.sets[n].tasks
                          THEN content.sets[n].tasks[t] ELSE prompts[n].tasks[t]])
            ELSE IF n \in DOMAIN content.sets THEN content.sets[n] ELSE prompts[n]]
    ELSE prompts

\* The body of one try block of _load_custom_prompts: parse the file, then
\* prompts.update(data).  A parse error, or update(None), raises before
\* prompts is touched, and the except clause only prints a warning.
ApplyFile(prompts, content) ==
    IF content.kind = "dict"
    THEN [n \in DOMAIN prompts \cup DOMAIN content.sets |->
            IF n \in DOMAIN content.sets THEN content.sets[n] ELSE prompts[n]]
    ELSE prompts

RECURSIVE ApplyFiles(_, _, _)
ApplyFiles(prompts, names, files) ==
    IF Len(names) = 0 THEN prompts
    ELSE ApplyFiles(ApplyFile(prompts, files[Head(names)].content), Tail(names), files)

\* config_dir.glob("*.<fmt>"): the files of one format, in directory order.
Glob(listing, files, fmt) == SelectSeq(listing, LAMBDA f : files[f].fmt = fmt)

\* A load that applies every JSON file, then every YAML file.
LoadCustomPromptsJsonFirst(files, listing) ==
    ApplyFiles(ApplyFiles(<<>>, Glob(listing, files, "json"), files),
               Glob(listing, files, "yaml"), files)

\* PromptConfig._load_custom_prompts: a fresh dict, every YAML file applied,
\* then every JSON file.
LoadCustomPrompts(files, listing) ==
    ApplyFiles(ApplyFiles(<<>>, Glob(listing, files, "yaml"), files),
               Glob(listing, files, "json"), files)

\* A reload that scans the JSON files before the YAML files.
ReloadedJsonFirst(files, listing) ==
    ApplyFiles(ApplyFiles(<<>>, Glob(listing, files, "json"), files),
               Glob(listing, files, "yaml"), files)

\* PromptConfig.reload: the registry after reload().
Reloaded(files, listing) == LoadCustomPrompts(files, listing)

\* get_custom_prompt without its two membership tests: the subscripts raise
\* KeyError instead.
GetCustomPromptUnchecked(registry, config_name, task, kwargs) ==
    IF config_name \notin DOMAIN registry
    THEN Raise("KeyError", "none")
    ELSE LET config == registry[config_name]
         IN  IF ~config.isMap
             THEN Raise("TypeError", "configuration is not a mapping")
             ELSE IF task \notin DOMAIN config.tasks
             THEN Raise("KeyError", "none")
             ELSE IF ~config.tasks[task].isStr
             THEN Raise("AttributeError", "template has no format")
             ELSE Format(config.tasks[task].tpl, kwargs)

\* PromptConfig.get_custom_prompt(config_name, task, **kwargs)
GetCustomPrompt(registry, config_name, task, kwargs) ==
    IF config_name \notin DOMAIN registry
    THEN Raise("ValueError", "Configuration not found")
    ELSE LET config == registry[config_name]
         IN  IF ~config.isMap
             THEN Raise("TypeError", "configuration is not a mapping")
             ELSE IF task \notin DOMAIN config.tasks
             THEN Raise("ValueError", "Task not found in configuration")
             ELSE IF ~config.tasks[task].isStr
             THEN Raise("AttributeError", "template has no format")
             ELSE Format(config.tasks[task].tpl, kwargs)


\* ------------------------------------------------------------------ state

VARIABLES
    files,           \* the configuration directory: file name -> [fmt, content]
    listing,         \* the order in which the directory lists its files
    custom_prompts,  \* prompt_config.custom_prompts, the override registry
    snapshot,        \* the directory as the last (re)load read it
    edits,           \* how often a configuration file was rewritten
    reloads,         \* how often reload() was called
    lastLookup,      \* the outcome of the last get_custom_prompt of the tooling
    default_prompts, \* the version of the process-wide default template set
    api_key,         \* config.openai_api_key: "none", "empty" or "set"
    agent,           \* the LiteratureReviewAgent, once constructed
    chunks,          \* the chunks analyze_paper got from the splitter
    pc,              \* where analyze_paper stands: "idle", a task, "done"
    inflight,        \* the completion call that has not returned yet
    calls,           \* the completion calls issued so far, in order
    analysis,        \* the entries of the analysis dict built so far
    metadata,        \* the metadata handed to analyze_paper
    cli,             \* the command-line options of main
    mpc,             \* where main stands
    validation_result, \* main's local of that name, once bound
    disk,            \* the files on disk: the user's paper, the temporary download
    cleaned_text,    \* main's cleaned_text: "unset", "" or "body"
    main_raised,     \* main ended by raising
    raw,             \* message.content of a completion, as the service sent it
    parsed,          \* what a list task made of it: the strip and the bullet parse
    splitter,        \* the constructor arguments of the splitter that made chunks
    tool,            \* compare_prompts: its options, its position, its results
    resolutions      \* the prompt resolutions made so far, with their inputs

vars == <<files, listing, custom_prompts, snapshot, edits, reloads, lastLookup,
          default_prompts, api_key, agent, chunks, pc, inflight, calls,
          analysis, metadata, cli, mpc, validation_result, disk, cleaned_text,
          main_raised, raw, parsed, splitter, tool, resolutions>>

configVars == <<files, listing, custom_prompts, snapshot, edits, reloads, lastLookup>>

agentVars == <<default_prompts, api_key, agent, chunks, pc, inflight, calls,
               analysis, metadata>>

mainVars == <<cli, mpc, validation_result, disk, cleaned_text, main_raised>>

parseVars == <<raw, parsed>>

toolVars == <<splitter, tool, resolutions>>

\* ---------------------------------------------------------------- routing

\* _generate_summary: chunks[:3]
SummaryChunks(cs) == PySlice(cs, 0, 3)

\* _extract_key_findings: chunks[-3:] if len(chunks) > 3 else chunks
KeyFindingsChunks(cs) == IF Len(cs) > 3 THEN PySliceFrom(cs, -3) ELSE cs

\* A slip in the slice: chunks[1:], which keeps the last chunk.
MethodologyChunksKeepLast(cs) == IF Len(cs) > 2 THEN PySliceFrom(cs, 1) ELSE cs

\* _extract_methodology: chunks[1:-1] if len(chunks) > 2 else chunks
MethodologyChunks(cs) == IF Len(cs) > 2 THEN PySlice(cs, 1, -1) ELSE cs

\* The test of _extract_contributions off by one: len(chunks) > 1.
ContributionsChunksFromTwo(cs) == IF Len(cs) > 1 THEN <<cs[1]>> \o PySliceFrom(cs, -2) ELSE cs

\* _extract_contributions: [chunks[0]] + chunks[-2:] if len(chunks) > 2 else chunks
ContributionsChunks(cs) == IF Len(cs) > 2 THEN <<cs[1]>> \o PySliceFrom(cs, -2) ELSE cs

\* _extract_limitations: chunks[-2:] if len(chunks) > 1 else chunks
LimitationsChunks(cs) == IF Len(cs) > 1 THEN PySliceFrom(cs, -2) ELSE cs

\* The chunks a task method selects.
RoutedChunks(task, cs) ==
    CASE task = "summary" -> SummaryChunks(cs)
      [] task = "key_findings" -> KeyFindingsChunks(cs)
      [] task = "methodology" -> MethodologyChunks(cs)
      [] task = "contributions" -> ContributionsChunks(cs)
      [] OTHER -> LimitationsChunks(cs)

\* " ".join(selected): the text keyword argument of the task's prompt.
RoutedText(task, cs) == Join(<<" ">>, RoutedChunks(task, cs))

\* ------------------------------------------------------- prompt resolution

\* The two branches exchanged: the built-in version whenever one is given,
\* the override set only without one.
ResolvePromptVersionFirst(registry, defaultVersion, ag, task, kwargs) ==
    IF ag.prompt_version # "none"
    THEN GetPrompt(defaultVersion, task, ag.prompt_version, kwargs)
    ELSE GetCustomPrompt(registry, ag.custom_config, task, kwargs)

\* The try block of _get_prompt: the override set when custom_config is
\* truthy, the built-in version otherwise.
ResolvePrompt(registry, defaultVersion, ag, task, kwargs) ==
    IF ag.custom_config \notin {"none", ""}
    THEN GetCustomPrompt(registry, ag.custom_config, task, kwargs)
    ELSE GetPrompt(defaultVersion, task, ag.prompt_version, kwargs)

\* The except clause of _get_prompt.
FallbackPrompt(task, kwargs) ==
    <<"Analyze this text for ", task, ": ">>
        \o (IF "text" \in DOMAIN kwargs THEN kwargs["text"] ELSE <<>>)

\* _get_prompt whose except clause returns nothing useful.
AgentGetPromptNoFallback(registry, defaultVersion, ag, task, kwargs) ==
    ResolvePrompt(registry, defaultVersion, ag, task, kwargs).val

\* _get_prompt that tries the built-in version when the override set fails.
AgentGetPromptBuiltinFallback(registry, defaultVersion, ag, task, kwargs) ==
    LET r == ResolvePrompt(registry, defaultVersion, ag, task, kwargs)
        b == GetPrompt(defaultVersion, task, ag.prompt_version, kwargs)
    IN  IF r.ok THEN r.val
        ELSE IF b.ok THEN b.val
        ELSE FallbackPrompt(task, kwargs)

\* LiteratureReviewAgent._get_prompt(task, **kwargs)
AgentGetPrompt(registry, defaultVersion, ag, task, kwargs) ==
    LET r == ResolvePrompt(registry, defaultVersion, ag, task, kwargs)
    IN  IF r.ok THEN r.val ELSE FallbackPrompt(task, kwargs)

NoKwargs == <<>>

DefaultSystemPrompt == <<"You are an expert academic researcher analyzing scientific papers.">>

\* _get_system_prompt without its except clause.
AgentGetSystemPromptNoFallback(registry, defaultVersion, ag) ==
    ResolvePrompt(registry, defaultVersion, ag, "system", NoKwargs).val

\* LiteratureReviewAgent._get_system_prompt()
AgentGetSystemPrompt(registry, defaultVersion, ag) ==
    LET r == ResolvePrompt(registry, defaultVersion, ag, "system", NoKwargs)
    IN  IF r.ok THEN r.val ELSE DefaultSystemPrompt

\* ------------------------------------------------------- response parsing

BulletMarkers ==
    {<<"\"">>, <<"-">>, <<"*">>, <<"1", ".">>, <<"2", ".">>, <<"3", ".">>,
     <<"4", ".">>, <<"5", ".">>}

\* line.startswith(('"', '-', '*', '1.', '2.', '3.', '4.', '5.'))
IsBulletLine(line) == \E m \in BulletMarkers : StartsWith(line, m)

\* line.lstrip('"-* ').lstrip('123456789. ')
CleanBullet(line) ==
    LStripChars(LStripChars(line, {"\"", "-", "*", " "}),
                {"1", "2", "3", "4", "5", "6", "7", "8", "9", ".", " "})

RECURSIVE CollectBullets(_)
\* The loop of _parse_bullet_points over the lines.
CollectBullets(lines) ==
    IF Len(lines) = 0 THEN <<>>
    ELSE LET line == Strip(Head(lines))
             cleaned == CleanBullet(line)
         IN  (IF IsBulletLine(line) /\ Len(cleaned) > 0 THEN <<cleaned>> ELSE <<>>)
             \o CollectBullets(Tail(lines))

\* _parse_bullet_points returning the collected list as it is.
ParseBulletPointsNoFallback(text) == CollectBullets(SplitLines(text, <<>>))

\* LiteratureReviewAgent._parse_bullet_points(text)
ParseBulletPoints(text) ==
    LET bullet_points == CollectBullets(SplitLines(text, <<>>))
    IN  IF Len(bullet_points) > 0 THEN bullet_points ELSE <<text>>


\* ------------------------------------------------------ the override files

FullSetTasks == AnalysisTasks \cup {"system"}

\* custom_v1 as create_custom_config writes it: system plus the five tasks.
CustomV1 ==
    SetOf([t \in FullSetTasks |->
        IF t = "system"
        THEN StrLeaf(<<Lit("You are an expert academic researcher analyzing scientific papers.")>>)
        ELSE StrLeaf(<<Lit("custom_v1 "), Lit(t), Lit(" Text: "), Ph("text")>>)])

\* Another definition of custom_v1, with other tasks and other templates.
CustomV1Short ==
    SetOf([t \in {"summary", "limitations"} |->
        StrLeaf(<<Lit("short "), Lit(t), Lit(": "), Ph("text")>>)])

\* A set whose summary template names a placeholder the agent never supplies,
\* whose key_findings is a number, and that has no system entry.
Roleplay ==
    SetOf([t \in {"summary", "key_findings", "methodology"} |->
        CASE t = "summary" -> StrLeaf(<<Lit("As "), Ph("role"), Lit(" read "), Ph("text")>>)
          [] t = "key_findings" -> [isStr |-> FALSE, tpl |-> <<>>]
          [] OTHER -> StrLeaf(<<Lit("roleplay methodology "), Ph("text")>>)])

\* The roleplay set with string templates only.
RoleplayStrings ==
    SetOf([t \in {"summary", "methodology"} |-> Roleplay.tasks[t]])

\* What a top-level key holds when its value is a number, as in "version: 2".
NotAMap == [isMap |-> FALSE, tasks |-> <<>>]

\* A file whose roleplay set has a number for one of its templates.
LeafNumberContent == DictContent([n \in {"roleplay"} |-> Roleplay])

\* A file with a top-level key that is no set, next to a set.
TopLevelNumberContent ==
    DictContent([n \in {"version", "custom_v1"} |->
                    IF n = "version" THEN NotAMap ELSE CustomV1])

\* The contents a configuration file can have: a mapping of sets whose
\* templates are all strings, text the parser rejects, nothing, a mapping
\* with a template that is no string, a mapping with an entry that is no set.
FileContents ==
    { DictContent([n \in {"custom_v1"} |-> CustomV1]),
      DictContent([n \in {"custom_v1", "roleplay"} |->
                      IF n = "custom_v1" THEN CustomV1Short ELSE RoleplayStrings]),
      SyntaxErrorContent,
      EmptyContent,
      LeafNumberContent,
      TopLevelNumberContent }

\* The files of the configuration directory: two YAML files and a JSON file.
FileNames == {"a.yaml", "b.yaml", "c.json"}

FormatOf(f) == IF f = "c.json" THEN "json" ELSE "yaml"

\* The directory the agent's runs start from, and its listing order.
SampleFiles ==
    [f \in FileNames |->
        [fmt |-> FormatOf(f),
         content |-> CASE f = "a.yaml" -> DictContent([n \in {"custom_v1"} |-> CustomV1])
                       [] f = "b.yaml" -> SyntaxErrorContent
                       [] OTHER -> DictContent([n \in {"roleplay"} |-> Roleplay])]]

SampleListing == <<"b.yaml", "c.json", "a.yaml">>

\* ------------------------------------------------------------- the agent

NoAgent == [state |-> "none", prompt_version |-> "none", custom_config |-> "none"]

NoCall == [task |-> "none", text |-> <<>>, resolved |-> Ok(<<>>), user |-> <<>>,
           system |-> <<>>, returned |-> TRUE, outcome |-> "none"]

\* The override names a caller may pass: none, the empty string, two sets the
\* sample directory defines and one it does not.
CustomSelectors == {"none", "", "custom_v1", "roleplay", "nonexistent_v9"}

\* validate_api_key without its length test.
ValidateApiKeyNotNone(key) == key # "none"

\* Config.validate_api_key
ValidateApiKey(key) == key # "none" /\ key # "empty"

\* LiteratureReviewAgent.__init__: raises ValueError without an API key.
NewAgent(key, version, custom) ==
    IF ValidateApiKey(key)
    THEN [state |-> "ready", prompt_version |-> version, custom_config |-> custom]
    ELSE [state |-> "failed", prompt_version |-> "none", custom_config |-> "none"]

\* The tooling constructs an agent: LiteratureReviewAgent(version, custom).
AgentInit(version, custom) ==
    /\ agent.state = "none"
    /\ mpc = "off"
    /\ agent' = NewAgent(api_key, version, custom)
    /\ UNCHANGED <<default_prompts, api_key, chunks, pc, inflight, calls, analysis, metadata>>
    /\ UNCHANGED configVars
    /\ UNCHANGED mainVars
    /\ UNCHANGED parseVars
    /\ UNCHANGED toolVars

\* No splitter has split anything yet.
NoSplitter == [chunk_size |-> 0, chunk_overlap |-> 0, separators |-> <<>>]

\* self.text_splitter as __init__ constructs it: the sizes of config, and the
\* separators paragraph break, line break, period+space, blank, raw cut.
AgentTextSplitter ==
    [chunk_size |-> 3000, chunk_overlap |-> 200,
     separators |-> <<"\n\n", "\n", ". ", " ", "">>]

\* The text of chunk i of the document: distinct for distinct positions.
ChunkText(i) == <<"chunk", ToString(i)>>

\* analyze_paper, up to the first task: self.text_splitter returns n chunks.
StartAnalysis(n, md) ==
    /\ agent.state = "ready"
    /\ pc = "idle"
    /\ chunks' = [i \in 1..n |-> ChunkText(i)]
    /\ metadata' = md
    /\ pc' = TaskOrder[1]
    /\ analysis' = <<>>
    /\ splitter' = AgentTextSplitter
    /\ UNCHANGED <<default_prompts, api_key, agent, inflight, calls>>
    /\ UNCHANGED configVars
    /\ UNCHANGED mainVars
    /\ UNCHANGED parseVars
    /\ UNCHANGED <<tool, resolutions>>

TextKwargs(text) == [k \in {"text"} |-> text]

\* A task method that reloads the configuration before it resolves its prompt.
IssueCallReloading ==
    /\ pc \in AnalysisTasks
    /\ inflight.returned
    /\ custom_prompts' = Reloaded(files, listing)
    /\ reloads' = reloads + 1
    /\ LET text == RoutedText(pc, chunks)
           kwargs == [k \in {"text"} |-> text]
           call == [task |-> pc,
                    text |-> text,
                    resolved |-> ResolvePrompt(custom_prompts', default_prompts, agent, pc, kwargs),
                    user |-> AgentGetPrompt(custom_prompts', default_prompts, agent, pc, kwargs),
                    system |-> AgentGetSystemPrompt(custom_prompts', default_prompts, agent),
                    returned |-> FALSE,
                    outcome |-> "pending"]
       IN  /\ inflight' = call
           /\ calls' = Append(calls, call)
    /\ UNCHANGED <<default_prompts, api_key, agent, chunks, pc, analysis, metadata>>
    /\ UNCHANGED <<files, listing, snapshot, edits, lastLookup>>
    /\ UNCHANGED mainVars
    /\ UNCHANGED parseVars
    /\ UNCHANGED toolVars

\* A task method up to its completion request: route the chunks, resolve the
\* prompt, then _call_openai resolves the system prompt and issues the call.
IssueCall ==
    /\ pc \in AnalysisTasks
    /\ inflight.returned
    /\ LET text == RoutedText(pc, chunks)
           kwargs == TextKwargs(text)
           call == [task |-> pc,
                    text |-> text,
                    resolved |-> ResolvePrompt(custom_prompts, default_prompts, agent, pc, kwargs),
                    user |-> AgentGetPrompt(custom_prompts, default_prompts, agent, pc, kwargs),
                    system |-> AgentGetSystemPrompt(custom_prompts, default_prompts, agent),
                    returned |-> FALSE,
                    outcome |-> "pending"]
       IN  /\ inflight' = call
           /\ calls' = Append(calls, call)
    /\ UNCHANGED <<default_prompts, api_key, agent, chunks, pc, analysis, metadata>>
    /\ UNCHANGED configVars
    /\ UNCHANGED mainVars
    /\ UNCHANGED parseVars
    /\ UNCHANGED toolVars

\* What the completion service may do with a request: return content (raw,
\* before strip), return a message without content, or raise.
CompletionOutcomes ==
    { [kind |-> "content", text |-> <<" ", "1", ".", " ", "A", "\n", "-", " ", "B", "\n">>],
      [kind |-> "none", text |-> <<>>],
      [kind |-> "raise", text |-> <<"t", "i", "m", "e", "d", " ", "o", "u", "t">>] }

ErrorPrefix ==
    <<"E", "r", "r", "o", "r", " ", "i", "n", " ", "A", "P", "I", " ", "c", "a", "l", "l", ":", " ">>

NoneTypeMessage == <<"N", "o", "n", "e", "T", "y", "p", "e", " ", "h", "a", "s", " ", "n", "o", " ", "s", "t", "r", "i", "p">>

\* _call_openai whose except clause swallows the error.
CallOpenaiResultSilent(outcome) ==
    IF outcome.kind = "content" THEN Strip(outcome.text) ELSE <<>>

\* What _call_openai returns for an outcome of the request: the stripped
\* content, or the error text of the exception its except clause caught.
CallOpenaiResult(outcome) ==
    CASE outcome.kind = "content" -> Strip(outcome.text)
      [] outcome.kind = "none" -> ErrorPrefix \o NoneTypeMessage
      [] OTHER -> ErrorPrefix \o outcome.text

ListTasks == {"key_findings", "contributions", "limitations"}

StrValue(s) == [kind |-> "str", str |-> s, list |-> <<>>]

ListValue(l) == [kind |-> "list", str |-> <<>>, list |-> l]

\* Task methods that all return the response as it is.
TaskResultUnparsed(task, response) == StrValue(response)

\* What a task method returns for the string _call_openai gave it.
TaskResult(task, response) ==
    IF task \in ListTasks THEN ListValue(ParseBulletPoints(response)) ELSE StrValue(response)

TaskIndex(task) == CHOOSE i \in 1..Len(TaskOrder) : TaskOrder[i] = task

\* A task method that asks again when its request failed.
ReturnCallRetry(outcome) ==
    /\ pc \in AnalysisTasks
    /\ ~inflight.returned
    /\ inflight' = [inflight EXCEPT !.returned = TRUE, !.outcome = outcome.kind]
    /\ calls' = [calls EXCEPT ![Len(calls)] = inflight']
    /\ analysis' = [k \in DOMAIN analysis \cup {pc} |->
                       IF k = pc THEN TaskResult(pc, CallOpenaiResult(outcome))
                       ELSE analysis[k]]
    /\ pc' = IF outcome.kind # "content" THEN pc
             ELSE IF TaskIndex(pc) < Len(TaskOrder) THEN TaskOrder[TaskIndex(pc) + 1]
             ELSE "metadata"
    /\ UNCHANGED <<default_prompts, api_key, agent, chunks, metadata>>
    /\ UNCHANGED configVars
    /\ UNCHANGED mainVars
    /\ UNCHANGED parseVars
    /\ UNCHANGED toolVars

\* The completion request returns (or fails); the task method returns its
\* entry of the analysis dict and analyze_paper goes on to the next entry.
ReturnCall(outcome) ==
    /\ pc \in AnalysisTasks
    /\ ~inflight.returned
    /\ inflight' = [inflight EXCEPT !.returned = TRUE, !.outcome = outcome.kind]
    /\ calls' = [calls EXCEPT ![Len(calls)] = inflight']
    /\ analysis' = [k \in DOMAIN analysis \cup {pc} |->
                       IF k = pc THEN TaskResult(pc, CallOpenaiResult(outcome))
                       ELSE analysis[k]]
    /\ pc' = IF TaskIndex(pc) < Len(TaskOrder) THEN TaskOrder[TaskIndex(pc) + 1] ELSE "metadata"
    /\ UNCHANGED <<default_prompts, api_key, agent, chunks, metadata>>
    /\ UNCHANGED configVars
    /\ UNCHANGED mainVars
    /\ UNCHANGED parseVars
    /\ UNCHANGED toolVars

MetaValue(md) == [kind |-> "meta", str |-> <<md>>, list |-> <<>>]

\* The last entry of the dict literal, and the return of analyze_paper.
ReturnAnalysis ==
    /\ pc = "metadata"
    /\ analysis' = [k \in DOMAIN analysis \cup {"metadata"} |->
                       IF k = "metadata" THEN MetaValue(metadata) ELSE analysis[k]]
    /\ pc' = "done"
    /\ UNCHANGED <<default_prompts, api_key, agent, chunks, inflight, calls, metadata>>
    /\ UNCHANGED configVars
    /\ UNCHANGED mainVars
    /\ UNCHANGED parseVars
    /\ UNCHANGED toolVars

\* The documents' metadata the parser may hand over.
Metadatas == {"pages=0", "pages=12"}

InitConfigIdle ==
    /\ files = SampleFiles
    /\ listing = SampleListing
    /\ custom_prompts = LoadCustomPrompts(SampleFiles, SampleListing)
    /\ snapshot = SampleFiles
    /\ edits = 0
    /\ reloads = 0
    /\ lastLookup = Ok(<<>>)

\* validation_result before validate_input has returned.
Unbound == [bound |-> FALSE, is_valid |-> FALSE, input_type |-> "none", temp_file |-> "none"]

NoCli == [list_prompts |-> FALSE, format_ok |-> TRUE, analyze |-> FALSE, output |-> FALSE,
          input_kind |-> "file", prompt_version |-> "v2_detailed", custom_prompts |-> "none"]

\* main is not running.
InitMainIdle ==
    /\ cli = NoCli
    /\ mpc = "off"
    /\ validation_result = Unbound
    /\ disk = {}
    /\ cleaned_text = "unset"
    /\ main_raised = FALSE

\* No response has been parsed.
NotParsed == [done |-> FALSE, response |-> <<>>, marked |-> <<>>, result |-> <<>>]

InitParseIdle ==
    /\ raw = <<>>
    /\ parsed = NotParsed

\* compare_prompts is not running.
NoTool == [at |-> "off", task |-> "none", configs |-> <<>>, i |-> 0, results |-> <<>>]

\* Nothing was split, compared or resolved.
InitToolIdle ==
    /\ splitter = NoSplitter
    /\ tool = NoTool
    /\ resolutions = <<>>

InitAgentIdle ==
    /\ default_prompts = "v2_detailed"
    /\ agent = NoAgent
    /\ chunks = <<>>
    /\ pc = "idle"
    /\ inflight = NoCall
    /\ calls = <<>>
    /\ analysis = <<>>
    /\ metadata = "none"

\* A process that has imported the modules, before an agent is constructed.
Init ==
    /\ InitConfigIdle
    /\ InitAgentIdle
    /\ InitMainIdle
    /\ InitParseIdle
    /\ InitToolIdle
    /\ api_key \in {"none", "empty", "set"}

Next ==
    \/ \E v \in PromptVersions, c \in CustomSelectors : AgentInit(v, c)
    \/ \E n \in 0..MaxChunks, md \in Metadatas : StartAnalysis(n, md)
    \/ IssueCall
    \/ \E o \in CompletionOutcomes : ReturnCall(o)
    \/ ReturnAnalysis

Spec == Init /\ [][Next]_vars


\* ------------------------------------------------- the configuration loader

\* PromptConfig.reload()
Reload ==
    /\ reloads < MaxReloads
    /\ custom_prompts' = Reloaded(files, listing)
    /\ snapshot' = files
    /\ reloads' = reloads + 1
    /\ UNCHANGED <<files, listing, edits, lastLookup>>
    /\ UNCHANGED agentVars
    /\ UNCHANGED mainVars
    /\ UNCHANGED parseVars
    /\ UNCHANGED toolVars

\* The user rewrites configuration file f; its place in the listing stays.
EditFile(f, content) ==
    /\ edits < MaxEdits
    /\ content # files[f].content
    /\ files' = [files EXCEPT ![f].content = content]
    /\ edits' = edits + 1
    /\ UNCHANGED <<listing, custom_prompts, snapshot, reloads, lastLookup>>
    /\ UNCHANGED agentVars
    /\ UNCHANGED mainVars
    /\ UNCHANGED parseVars
    /\ UNCHANGED toolVars

\* show_prompt of the tooling: get_custom_prompt(custom, task, text=...).
Lookup(name, task) ==
    /\ lastLookup' = GetCustomPrompt(custom_prompts, name, task, TextKwargs(<<"sample">>))
    /\ lastLookup' # lastLookup
    /\ UNCHANGED <<files, listing, custom_prompts, snapshot, edits, reloads>>
    /\ UNCHANGED agentVars
    /\ UNCHANGED mainVars
    /\ UNCHANGED parseVars
    /\ UNCHANGED toolVars

\* The orders in which the directory can list its files.
Listings ==
    {l \in [1..Cardinality(FileNames) -> FileNames] : \A f \in FileNames : \E i \in DOMAIN l : l[i] = f}

\* A process that has imported prompts.config: PromptConfig.__init__ has
\* loaded whatever the directory held.
InitConfig ==
    /\ files \in [FileNames -> [fmt : {"yaml", "json"}, content : FileContents]]
    /\ \A f \in FileNames : files[f].fmt = FormatOf(f)
    /\ listing \in Listings
    /\ custom_prompts = LoadCustomPrompts(files, listing)
    /\ snapshot = files
    /\ edits = 0
    /\ reloads = 0
    /\ lastLookup = Ok(<<>>)
    /\ InitAgentIdle
    /\ InitMainIdle
    /\ InitParseIdle
    /\ InitToolIdle
    /\ api_key = "set"

NextConfig ==
    \/ Reload
    \/ \E f \in FileNames, c \in FileContents : EditFile(f, c)

SpecConfig == InitConfig /\ [][NextConfig]_vars

\* The names and tasks the tooling asks the registry for.
LookupNames == {"custom_v1", "roleplay", "version", "nonexistent_v9"}

LookupTasks == {"summary", "key_findings", "methodology"}

\* Lookups in a registry loaded from any directory.
NextLookup == \E n \in LookupNames, t \in LookupTasks : Lookup(n, t)

SpecLookup == InitConfig /\ [][NextLookup]_vars

\* ------------------------------------------------------------------- main

UserFile == "paper.pdf"

TempFile == "tmp.pdf"

\* --list-prompts: main prints the registry and returns before its try block.
MainListPrompts ==
    /\ mpc = "start"
    /\ cli.list_prompts
    /\ mpc' = "done"
    /\ UNCHANGED <<cli, validation_result, disk, cleaned_text, main_raised>>
    /\ UNCHANGED configVars
    /\ UNCHANGED parseVars
    /\ UNCHANGED toolVars
    /\ UNCHANGED agentVars

\* An invalid --format: main returns before its try block.
MainBadFormat ==
    /\ mpc = "start"
    /\ ~cli.list_prompts
    /\ ~cli.format_ok
    /\ mpc' = "done"
    /\ UNCHANGED <<cli, validation_result, disk, cleaned_text, main_raised>>
    /\ UNCHANGED configVars
    /\ UNCHANGED parseVars
    /\ UNCHANGED toolVars
    /\ UNCHANGED agentVars

\* main enters its try block and calls validator.validate_input(input).
MainEnterTry ==
    /\ mpc = "start"
    /\ ~cli.list_prompts
    /\ cli.format_ok
    /\ mpc' = "validate"
    /\ UNCHANGED <<cli, validation_result, disk, cleaned_text, main_raised>>
    /\ UNCHANGED configVars
    /\ UNCHANGED parseVars
    /\ UNCHANGED toolVars
    /\ UNCHANGED agentVars

\* validate_input that reports the path of a local file as its temp_file.
ValidateFileAsTemp(isPdf) ==
    /\ mpc = "validate"
    /\ cli.input_kind = "file"
    /\ validation_result' = [bound |-> TRUE, is_valid |-> (UserFile \in disk /\ isPdf),
                             input_type |-> "file", temp_file |-> UserFile]
    /\ mpc' = "validated"
    /\ UNCHANGED <<cli, disk, cleaned_text, main_raised>>
    /\ UNCHANGED configVars
    /\ UNCHANGED parseVars
    /\ UNCHANGED toolVars
    /\ UNCHANGED agentVars

\* validate_input of a path: _validate_file_path says whether it is a PDF on disk.
ValidateFile(isPdf) ==
    /\ mpc = "validate"
    /\ cli.input_kind = "file"
    /\ validation_result' = [bound |-> TRUE, is_valid |-> (UserFile \in disk /\ isPdf),
                             input_type |-> "file", temp_file |-> "none"]
    /\ mpc' = "validated"
    /\ UNCHANGED <<cli, disk, cleaned_text, main_raised>>
    /\ UNCHANGED configVars
    /\ UNCHANGED parseVars
    /\ UNCHANGED toolVars
    /\ UNCHANGED agentVars

\* _validate_and_download_url returns before it has created a file: a bad
\* scheme, a failed HEAD or GET request, or a URL that is no PDF.
UrlRejected ==
    /\ mpc = "validate"
    /\ cli.input_kind = "url"
    /\ validation_result' = [bound |-> TRUE, is_valid |-> FALSE, input_type |-> "url",
                             temp_file |-> "none"]
    /\ mpc' = "validated"
    /\ UNCHANGED <<cli, disk, cleaned_text, main_raised>>
    /\ UNCHANGED configVars
    /\ UNCHANGED parseVars
    /\ UNCHANGED toolVars
    /\ UNCHANGED agentVars

\* The GET succeeded: NamedTemporaryFile(delete=False) creates the file.
UrlCreateTemp ==
    /\ mpc = "validate"
    /\ cli.input_kind = "url"
    /\ disk' = disk \cup {TempFile}
    /\ mpc' = "download"
    /\ UNCHANGED <<cli, validation_result, cleaned_text, main_raised>>
    /\ UNCHANGED configVars
    /\ UNCHANGED parseVars
    /\ UNCHANGED toolVars
    /\ UNCHANGED agentVars

\* iter_content or write raises while the body is streamed: the except
\* clauses return a result without temp_file and unlink nothing.
DownloadFails ==
    /\ mpc = "download"
    /\ validation_result' = [bound |-> TRUE, is_valid |-> FALSE, input_type |-> "url",
                             temp_file |-> "none"]
    /\ mpc' = "validated"
    /\ UNCHANGED <<cli, disk, cleaned_text, main_raised>>
    /\ UNCHANGED configVars
    /\ UNCHANGED parseVars
    /\ UNCHANGED toolVars
    /\ UNCHANGED agentVars

\* The body is written and the file closed; _validate_file_path checks it:
\* a PDF is handed to main as temp_file, anything else is unlinked.
DownloadChecked(isPdf) ==
    /\ mpc = "download"
    /\ validation_result' = [bound |-> TRUE, is_valid |-> isPdf, input_type |-> "url",
                             temp_file |-> IF isPdf THEN TempFile ELSE "none"]
    /\ disk' = IF isPdf THEN disk ELSE disk \ {TempFile}
    /\ mpc' = "validated"
    /\ UNCHANGED <<cli, cleaned_text, main_raised>>
    /\ UNCHANGED configVars
    /\ UNCHANGED parseVars
    /\ UNCHANGED toolVars
    /\ UNCHANGED agentVars

\* main returns on an invalid input.
MainInvalid ==
    /\ mpc = "validated"
    /\ ~validation_result.is_valid
    /\ mpc' = "finally"
    /\ UNCHANGED <<cli, validation_result, disk, cleaned_text, main_raised>>
    /\ UNCHANGED configVars
    /\ UNCHANGED parseVars
    /\ UNCHANGED toolVars
    /\ UNCHANGED agentVars

\* extract_text, extract_metadata and clean_text; main returns when no text
\* was extracted.  text is "none", "" or "body"; a body may clean to "".
MainExtract(text, cleaned, md) ==
    /\ mpc = "validated"
    /\ validation_result.is_valid
    /\ cleaned_text' = IF text = "body" THEN cleaned ELSE "unset"
    /\ metadata' = md
    /\ mpc' = IF text = "body" THEN "extracted" ELSE "finally"
    /\ UNCHANGED <<default_prompts, api_key, agent, chunks, pc, inflight, calls, analysis>>
    /\ UNCHANGED <<cli, validation_result, disk, main_raised>>
    /\ UNCHANGED configVars
    /\ UNCHANGED parseVars
    /\ UNCHANGED toolVars

\* Without --analyze main writes or prints the text; the write may raise.
MainTextOnly ==
    /\ mpc = "extracted"
    /\ ~cli.analyze
    /\ mpc' = "finally"
    /\ UNCHANGED <<cli, validation_result, disk, cleaned_text, main_raised>>
    /\ UNCHANGED configVars
    /\ UNCHANGED parseVars
    /\ UNCHANGED toolVars
    /\ UNCHANGED agentVars

\* --analyze without an API key: main returns.
MainNoApiKey ==
    /\ mpc = "extracted"
    /\ cli.analyze
    /\ ~ValidateApiKey(api_key)
    /\ mpc' = "finally"
    /\ UNCHANGED <<cli, validation_result, disk, cleaned_text, main_raised>>
    /\ UNCHANGED configVars
    /\ UNCHANGED parseVars
    /\ UNCHANGED toolVars
    /\ UNCHANGED agentVars

\* main constructing the agent without the test of the --analyze flag.
MainInitAgentUnasked ==
    /\ mpc = "extracted"
    /\ ValidateApiKey(api_key)
    /\ agent' = NewAgent(api_key, cli.prompt_version, cli.custom_prompts)
    /\ mpc' = IF agent'.state = "ready" THEN "analyze" ELSE "finally"
    /\ UNCHANGED <<default_prompts, api_key, chunks, pc, inflight, calls, analysis, metadata>>
    /\ UNCHANGED <<cli, validation_result, disk, cleaned_text, main_raised>>
    /\ UNCHANGED configVars
    /\ UNCHANGED parseVars
    /\ UNCHANGED toolVars

\* main constructs the agent from --prompt-version and --custom-prompts.
MainInitAgent ==
    /\ mpc = "extracted"
    /\ cli.analyze
    /\ ValidateApiKey(api_key)
    /\ agent' = NewAgent(api_key, cli.prompt_version, cli.custom_prompts)
    /\ mpc' = IF agent'.state = "ready" THEN "analyze" ELSE "finally"
    /\ UNCHANGED <<default_prompts, api_key, chunks, pc, inflight, calls, analysis, metadata>>
    /\ UNCHANGED <<cli, validation_result, disk, cleaned_text, main_raised>>
    /\ UNCHANGED configVars
    /\ UNCHANGED parseVars
    /\ UNCHANGED toolVars

\* analyze_paper has returned: main formats the result, saves or prints it
\* (which may raise) and leaves the try block.
MainOutput ==
    /\ mpc = "analyze"
    /\ pc = "done"
    /\ mpc' = "finally"
    /\ UNCHANGED <<cli, validation_result, disk, cleaned_text, main_raised>>
    /\ UNCHANGED configVars
    /\ UNCHANGED parseVars
    /\ UNCHANGED toolVars
    /\ UNCHANGED agentVars

\* Ctrl-C inside the try block: KeyboardInterrupt passes every except
\* Exception clause up to main's own handler, then the finally clause runs.
Interrupt ==
    /\ mpc \in {"validate", "download", "validated", "extracted", "analyze"}
    /\ mpc' = "finally"
    /\ pc' = IF mpc = "analyze" /\ pc # "done" THEN "interrupted" ELSE pc
    /\ UNCHANGED <<default_prompts, api_key, agent, chunks, inflight, calls, analysis, metadata>>
    /\ UNCHANGED <<cli, validation_result, disk, cleaned_text, main_raised>>
    /\ UNCHANGED configVars
    /\ UNCHANGED parseVars
    /\ UNCHANGED toolVars

\* InputValidator.cleanup_temp_file: unlink the path if it exists.
CleanupTempFile(d, temp_file_path) ==
    IF temp_file_path # "none" /\ temp_file_path \in d THEN d \ {temp_file_path} ELSE d

\* The finally clause of main: validation_result.get('temp_file') raises
\* UnboundLocalError when validate_input never returned.
MainFinally ==
    /\ mpc = "finally"
    /\ mpc' = "done"
    /\ IF ~validation_result.bound
       THEN /\ main_raised' = TRUE
            /\ UNCHANGED disk
       ELSE /\ UNCHANGED main_raised
            /\ disk' = IF validation_result.temp_file # "none"
                       THEN CleanupTempFile(disk, validation_result.temp_file)
                       ELSE disk
    /\ UNCHANGED <<cli, validation_result, cleaned_text>>
    /\ UNCHANGED configVars
    /\ UNCHANGED parseVars
    /\ UNCHANGED toolVars
    /\ UNCHANGED agentVars

\* The command lines main is run with.
CommandLines ==
    [list_prompts : BOOLEAN, format_ok : BOOLEAN, analyze : BOOLEAN, output : BOOLEAN,
     input_kind : {"url", "file"}, prompt_version : {"v2_detailed", "experimental"},
     custom_prompts : {"none", "roleplay"}]

\* main is called: the user's paper may be on disk, no temporary file is.
InitMain ==
    /\ InitConfigIdle
    /\ InitAgentIdle
    /\ api_key \in {"none", "empty", "set"}
    /\ cli \in CommandLines
    /\ mpc = "start"
    /\ validation_result = Unbound
    /\ disk \in {{}, {UserFile}}
    /\ cleaned_text = "unset"
    /\ main_raised = FALSE
    /\ InitParseIdle
    /\ InitToolIdle

\* The chunk counts main's documents reach in this specification.
MainChunkCounts == {0, 1, 4}

NextMain ==
    \/ MainListPrompts
    \/ MainBadFormat
    \/ MainEnterTry
    \/ \E isPdf \in BOOLEAN : ValidateFile(isPdf)
    \/ UrlRejected
    \/ UrlCreateTemp
    \/ DownloadFails
    \/ \E isPdf \in BOOLEAN : DownloadChecked(isPdf)
    \/ MainInvalid
    \/ \E text \in {"none", "", "body"}, cleaned \in {"", "body"}, md \in {"pages=12"} :
          MainExtract(text, cleaned, md)
    \/ MainTextOnly
    \/ MainNoApiKey
    \/ MainInitAgent
    \/ \E n \in MainChunkCounts :
          /\ mpc = "analyze"
          /\ (n = 0) = (cleaned_text = "")
          /\ StartAnalysis(n, metadata)
    \/ IssueCall
    \/ \E o \in CompletionOutcomes : ReturnCall(o)
    \/ ReturnAnalysis
    \/ MainOutput
    \/ Interrupt
    \/ MainFinally

SpecMain == InitMain /\ [][NextMain]_vars

\* ------------------------------------------------------ the response parser

\* The lines a completion's content is made of: plain text, text in blanks,
\* the markers of the startswith tuple, numbers above five, a number of two
\* digits, items that begin with a digit, bare markers, a hyphen inside a line.
ResponseLines ==
    { <<>>,
      <<"A">>,
      <<" ", "A", " ">>,
      <<"-", " ", "A">>,
      <<" ", "*", " ", "B">>,
      <<"\"", "A", "\"">>,
      <<"1", ".", " ", "A">>,
      <<"2", ".", " ", "B">>,
      <<"3", ".", " ", "C">>,
      <<"6", ".", " ", "F">>,
      <<"9", ".", "I">>,
      <<"-", " ", "2", " ", "B">>,
      <<"1", ".", " ", "3", ".", "5", " ", "C">>,
      <<"-">>,
      <<"1", ".">>,
      <<"1", "0", ".", " ", "J">>,
      <<"A", " ", "-", " ", "B">>,
      <<"-", " ", "\"", "Q", "\"">> }

\* The contents the service may send: one to MaxLines lines joined by "\n".
RawResponses(lines) ==
    UNION { {Join(<<"\n">>, ls) : ls \in [1..n -> lines]} : n \in 1..MaxLines }

\* For each line of text.split('\n'), whether the startswith test of the loop
\* let it in.
MarkedLines(text) ==
    LET lines == SplitLines(text, <<>>)
    IN  [i \in 1..Len(lines) |-> IsBulletLine(Strip(lines[i]))]

\* A list task after its request: _call_openai returns the stripped content
\* and _parse_bullet_points makes the list of it.
ParseResponse ==
    /\ ~parsed.done
    /\ LET response == CallOpenaiResult([kind |-> "content", text |-> raw])
       IN  parsed' = [done |-> TRUE,
                      response |-> response,
                      marked |-> MarkedLines(response),
                      result |-> ParseBulletPoints(response)]
    /\ UNCHANGED raw
    /\ UNCHANGED configVars
    /\ UNCHANGED agentVars
    /\ UNCHANGED mainVars
    /\ UNCHANGED toolVars

\* A completion has arrived for a list task of a constructed agent.
InitParse ==
    /\ InitConfigIdle
    /\ InitAgentIdle
    /\ InitMainIdle
    /\ api_key = "set"
    /\ raw \in RawResponses(ResponseLines)
    /\ parsed = NotParsed
    /\ InitToolIdle

NextParse == ParseResponse

SpecParse == InitParse /\ [][NextParse]_vars

\* -------------------------------------------------- repeated resolutions

\* The inputs of the resolutions: the task whose roleplay template fails and
\* one the experimental set lacks, two built-in versions, no override and an
\* override set, two texts; and the versions set_default_version is given.
ResolveTasks == {"summary", "methodology"}

ResolveVersions == {"v1_basic", "experimental"}

ResolveCustoms == {"none", "roleplay"}

ResolveTexts == {<<"a">>, <<"b">>}

DefaultVersions == {"v2_detailed", "experimental"}

\* An agent constructed with (version, custom) resolves the prompt of a task:
\* _get_prompt(task, text=text).
Resolve(task, version, custom, text) ==
    /\ Len(resolutions) < MaxResolutions
    /\ LET ag == NewAgent(api_key, version, custom)
           kwargs == TextKwargs(text)
       IN  resolutions' = Append(resolutions,
               [task |-> task, version |-> version, custom |-> custom, text |-> text,
                default |-> default_prompts,
                resolved |-> ResolvePrompt(custom_prompts, default_prompts, ag, task, kwargs),
                user |-> AgentGetPrompt(custom_prompts, default_prompts, ag, task, kwargs)])
    /\ UNCHANGED <<splitter, tool>>
    /\ UNCHANGED configVars
    /\ UNCHANGED agentVars
    /\ UNCHANGED mainVars
    /\ UNCHANGED parseVars

\* prompts.set_default_version(version): default_prompts is rebound.
SetDefaultVersion(version) ==
    /\ version # default_prompts
    /\ default_prompts' = version
    /\ UNCHANGED <<api_key, agent, chunks, pc, inflight, calls, analysis, metadata>>
    /\ UNCHANGED configVars
    /\ UNCHANGED mainVars
    /\ UNCHANGED parseVars
    /\ UNCHANGED toolVars

\* A process with a configured key, before any resolution.
InitResolve ==
    /\ InitConfigIdle
    /\ InitAgentIdle
    /\ InitMainIdle
    /\ InitParseIdle
    /\ InitToolIdle
    /\ api_key = "set"

NextResolve ==
    \/ \E t \in ResolveTasks, v \in ResolveVersions, c \in ResolveCustoms, x \in ResolveTexts :
          Resolve(t, v, c, x)
    \/ \E v \in DefaultVersions : SetDefaultVersion(v)

SpecResolve == InitResolve /\ [][NextResolve]_vars

\* ------------------------------------------------------- compare_prompts

\* The splitter compare_prompts constructs: RecursiveCharacterTextSplitter(
\* chunk_size=3000, chunk_overlap=200), no separators argument ("default").
ToolTextSplitter == [chunk_size |-> 3000, chunk_overlap |-> 200, separators |-> "default"]

\* The separators a splitter works with: the list it was given, or, when none
\* was given, the list RecursiveCharacterTextSplitter falls back to, which
\* has no period+space entry.
EffectiveSeparators(sp) ==
    IF sp.separators = "default" THEN <<"\n\n", "\n", " ", "">> ELSE sp.separators

\* version_map.get(config_name, PromptVersion.V2_DETAILED)
VersionMap(name) == IF name \in PromptVersions THEN name ELSE "v2_detailed"

\* The two entries of configs: a truthy --customN selects the override set,
\* otherwise --versionN the built-in version.
ToolConfig(version, custom) ==
    IF custom \notin {"none", ""}
    THEN [type |-> "custom", name |-> custom]
    ELSE [type |-> "builtin", name |-> version]

\* The agent compare_prompts constructs for an entry of configs.
ToolAgent(key, cfg) ==
    IF cfg.type = "custom"
    THEN NewAgent(key, "v2_detailed", cfg.name)
    ELSE NewAgent(key, VersionMap(cfg.name), "none")

\* The position after entry i of configs is done with.
AfterConfig(t) == IF t.i < Len(t.configs) THEN "loop" ELSE "show"

\* Text extraction and cleaning; compare_prompts returns when nothing is left
\* or the parser raised.
CompareExtract(outcome) ==
    /\ tool.at = "extract"
    /\ cleaned_text' = IF outcome = "raise" THEN "unset" ELSE outcome
    /\ tool' = [tool EXCEPT !.at = IF outcome = "body" THEN "loop" ELSE "done", !.i = 1]
    /\ UNCHANGED <<cli, mpc, validation_result, disk, main_raised>>
    /\ UNCHANGED <<splitter, resolutions>>
    /\ UNCHANGED configVars
    /\ UNCHANGED agentVars
    /\ UNCHANGED parseVars

\* The loop body up to the agent: LiteratureReviewAgent(...) raises
\* ValueError without a key, and the except clause records the error.
CompareInitAgent ==
    /\ tool.at = "loop"
    /\ agent' = ToolAgent(api_key, tool.configs[tool.i])
    /\ tool' = IF agent'.state = "ready"
               THEN [tool EXCEPT !.at = "split"]
               ELSE [tool EXCEPT !.at = AfterConfig(tool),
                                 !.i = tool.i + 1,
                                 !.results = Append(tool.results,
                                     [config |-> tool.configs[tool.i], error |-> TRUE,
                                      result |-> StrValue(<<"OpenAI API key not found.">>)])]
    /\ UNCHANGED <<default_prompts, api_key, chunks, pc, inflight, calls, analysis, metadata>>
    /\ UNCHANGED <<splitter, resolutions>>
    /\ UNCHANGED configVars
    /\ UNCHANGED mainVars
    /\ UNCHANGED parseVars

\* compare_prompts constructs its own splitter and splits the cleaned text.
CompareSplit(n) ==
    /\ tool.at = "split"
    /\ splitter' = ToolTextSplitter
    /\ chunks' = [i \in 1..n |-> ChunkText(i)]
    /\ tool' = [tool EXCEPT !.at = "task"]
    /\ UNCHANGED <<default_prompts, api_key, agent, pc, inflight, calls, analysis, metadata>>
    /\ UNCHANGED resolutions
    /\ UNCHANGED configVars
    /\ UNCHANGED mainVars
    /\ UNCHANGED parseVars

\* The task method of --task, up to its completion request.
CompareIssueCall ==
    /\ tool.at = "task"
    /\ LET text == RoutedText(tool.task, chunks)
           kwargs == TextKwargs(text)
           call == [task |-> tool.task,
                    text |-> text,
                    resolved |-> ResolvePrompt(custom_prompts, default_prompts, agent, tool.task, kwargs),
                    user |-> AgentGetPrompt(custom_prompts, default_prompts, agent, tool.task, kwargs),
                    system |-> AgentGetSystemPrompt(custom_prompts, default_prompts, agent),
                    returned |-> FALSE,
                    outcome |-> "pending"]
       IN  /\ inflight' = call
           /\ calls' = Append(calls, call)
    /\ tool' = [tool EXCEPT !.at = "call"]
    /\ UNCHANGED <<default_prompts, api_key, agent, chunks, pc, analysis, metadata>>
    /\ UNCHANGED <<splitter, resolutions>>
    /\ UNCHANGED configVars
    /\ UNCHANGED mainVars
    /\ UNCHANGED parseVars

\* The request returns; the task method's value is stored in results.
CompareReturnCall(outcome) ==
    /\ tool.at = "call"
    /\ inflight' = [inflight EXCEPT !.returned = TRUE, !.outcome = outcome.kind]
    /\ calls' = [calls EXCEPT ![Len(calls)] = inflight']
    /\ tool' = [tool EXCEPT !.at = AfterConfig(tool),
                            !.i = tool.i + 1,
                            !.results = Append(tool.results,
                                [config |-> tool.configs[tool.i], error |-> FALSE,
                                 result |-> TaskResult(tool.task, CallOpenaiResult(outcome))])]
    /\ UNCHANGED <<default_prompts, api_key, agent, chunks, pc, analysis, metadata>>
    /\ UNCHANGED <<splitter, resolutions>>
    /\ UNCHANGED configVars
    /\ UNCHANGED mainVars
    /\ UNCHANGED parseVars

\* The results are displayed and, with --output, saved.
CompareShow ==
    /\ tool.at = "show"
    /\ tool' = [tool EXCEPT !.at = "done"]
    /\ UNCHANGED <<splitter, resolutions>>
    /\ UNCHANGED configVars
    /\ UNCHANGED agentVars
    /\ UNCHANGED mainVars
    /\ UNCHANGED parseVars

\* The options compare_prompts is run with.
CompareVersions == {"v2_detailed", "v3_structured"}

CompareCustoms == {"none", "custom_v1"}

\* compare_prompts is called.
InitCompare ==
    /\ InitConfigIdle
    /\ InitAgentIdle
    /\ InitMainIdle
    /\ InitParseIdle
    /\ splitter = NoSplitter
    /\ resolutions = <<>>
    /\ api_key \in {"none", "set"}
    /\ \E t \in AnalysisTasks, v1 \in CompareVersions, v2 \in CompareVersions,
          c1 \in CompareCustoms, c2 \in CompareCustoms :
          tool = [at |-> "extract", task |-> t,
                  configs |-> <<ToolConfig(v1, c1), ToolConfig(v2, c2)>>,
                  i |-> 0, results |-> <<>>]

\* The chunk counts the tool's documents reach.
CompareChunkCounts == {1, 2, 4}

NextCompare ==
    \/ \E o \in {"raise", "", "body"} : CompareExtract(o)
    \/ CompareInitAgent
    \/ \E n \in CompareChunkCounts : CompareSplit(n)
    \/ CompareIssueCall
    \/ \E o \in CompletionOutcomes : CompareReturnCall(o)
    \/ CompareShow

SpecCompare == InitCompare /\ [][NextCompare]_vars

\* ----------------------------------------------------------------- claims

\* The positions the routing table of the specification selects among n chunks.
TablePositions(task, n) ==
    CASE task = "summary" -> IF n <= 3 THEN 1..n ELSE 1..3
      [] task = "key_findings" -> IF n <= 3 THEN 1..n ELSE (n - 2)..n
      [] task = "methodology" -> IF n <= 2 THEN 1..n ELSE 2..(n - 1)
      [] task = "contributions" -> IF n <= 2 THEN 1..n ELSE {1, n - 1, n}
      [] OTHER -> IF n <= 1 THEN 1..n ELSE {n - 1, n}

RECURSIVE JoinAscending(_, _)
\* The chunks at the positions P, in document order, one space between two.
JoinAscending(P, cs) ==
    IF P = {} THEN <<>>
    ELSE LET m == CHOOSE x \in P : \A y \in P : x <= y
         IN  cs[m] \o (IF P \ {m} = {} THEN <<>> ELSE <<" ">> \o JoinAscending(P \ {m}, cs))

\* C1: for every task and every chunk count N >= 1, the text handed to prompt
\* resolution is the chunks the routing table selects, joined by exactly one
\* space in original document order.
C1_RoutedTextMatchesTable ==
    \A i \in 1..Len(calls) :
        Len(chunks) >= 1 =>
            calls[i].text = JoinAscending(TablePositions(calls[i].task, Len(chunks)), chunks)

\* All five tasks have routed a five-chunk document; contributions took the
\* first chunk and the last two.
C1_Witness ==
    /\ Len(chunks) = 5
    /\ Len(calls) = 5
    /\ calls[3].text = <<"chunk", "2", " ", "chunk", "3", " ", "chunk", "4">>
    /\ calls[4].text = <<"chunk", "1", " ", "chunk", "4", " ", "chunk", "5">>

\* C2: whenever resolution fails in _get_prompt (unknown selector, task absent
\* from the set, placeholder not supplied), the prompt it returns is the
\* non-empty generic string "Analyze this text for <task>: <text>".
C2_FailedResolutionFallsBack ==
    \A i \in 1..Len(calls) :
        ~calls[i].resolved.ok =>
            /\ calls[i].user = <<"Analyze this text for ", calls[i].task, ": ">> \o calls[i].text
            /\ Len(calls[i].user) > 0

\* An analysis under the roleplay set: the summary template names a
\* placeholder that is not supplied and the contributions task is absent.
C2_Witness ==
    /\ Len(calls) >= 4
    /\ calls[1].resolved.err = "KeyError"
    /\ calls[4].resolved.msg = "Task not found in configuration"
    /\ calls[4].user = <<"Analyze this text for ", "contributions", ": ">> \o calls[4].text

\* C3: the completion calls of one analyze_paper are issued in the order
\* summary, key_findings, methodology, contributions, limitations, each only
\* after the calls before it have returned.
C3_TasksRunInOrder ==
    /\ Len(calls) <= 5
    /\ \A i \in 1..Len(calls) :
        /\ calls[i].task =
             <<"summary", "key_findings", "methodology", "contributions", "limitations">>[i]
        /\ i < Len(calls) => calls[i].returned

\* The fifth call is in flight and the four before it have returned.
C3_Witness ==
    /\ Len(calls) = 5
    /\ ~calls[5].returned
    /\ \A i \in 1..4 : calls[i].returned

\* The error text _call_openai returns for a failed request.
ErrorTextOf(call) ==
    ErrorPrefix \o (IF call.outcome = "none" THEN NoneTypeMessage
                    ELSE <<"t", "i", "m", "e", "d", " ", "o", "u", "t">>)

\* C4: a failed completion call is captured as error text in its task's entry
\* and aborts nothing: the analysis goes on to the next task, and the result
\* returned has all five task entries after five calls.
C4_FailuresAreCaptured ==
    /\ \A i \in 1..Len(calls) :
        (calls[i].returned /\ calls[i].outcome # "content") =>
            /\ calls[i].task \in DOMAIN analysis
            /\ analysis[calls[i].task] =
                 IF calls[i].task \in {"key_findings", "contributions", "limitations"}
                 THEN ListValue(<<ErrorTextOf(calls[i])>>)
                 ELSE StrValue(ErrorTextOf(calls[i]))
    /\ pc \in AnalysisTasks =>
        /\ Len(calls) \in {TaskIndex(pc) - 1, TaskIndex(pc)}
        /\ \A i \in 1..(TaskIndex(pc) - 1) : calls[i].returned
    /\ pc \in {"metadata", "done"} =>
        /\ Len(calls) = 5
        /\ \A t \in AnalysisTasks : t \in DOMAIN analysis

\* An analysis has returned although every one of its five calls failed.
C4_Witness ==
    /\ pc = "done"
    /\ Len(calls) = 5
    /\ \A i \in 1..5 : calls[i].outcome = "raise"
    /\ DOMAIN analysis = AnalysisTasks \cup {"metadata"}

\* The call was resolved against a built-in version.
UsesBuiltin(call) == agent.custom_config \in {"none", ""} /\ call.task # "none"

HasTextPlaceholder(tpl) == \E k \in 1..Len(tpl) : tpl[k] = Ph("text")

\* C10 as stated: for every built-in version and every one of the five tasks
\* resolution succeeds.
C10_EveryBuiltinResolves ==
    \A i \in 1..Len(calls) : UsesBuiltin(calls[i]) => calls[i].resolved.ok

\* C10 as amended: for v1_basic, v2_detailed and v3_structured every one of the
\* five tasks resolves to a non-empty template containing {text}; for
\* experimental this holds of summary and key_findings, and the other three
\* tasks fail with the no-template error.
C10_BuiltinResolution ==
    \A i \in 1..Len(calls) :
        UsesBuiltin(calls[i]) =>
            LET v == agent.prompt_version
                t == calls[i].task
            IN  IF v = "experimental" /\ t \in {"methodology", "contributions", "limitations"}
                THEN /\ ~calls[i].resolved.ok
                     /\ calls[i].resolved.err = "ValueError"
                     /\ calls[i].resolved.msg = "No template found for task"
                ELSE /\ calls[i].resolved.ok
                     /\ Len(calls[i].resolved.val) > 0
                     /\ calls[i].user = calls[i].resolved.val
                     /\ HasTextPlaceholder(LoadTemplates[v][t])

\* The experimental version has run all five tasks: two resolved, three not.
C10_Witness ==
    /\ agent.prompt_version = "experimental"
    /\ agent.custom_config = "none"
    /\ Len(calls) = 5
    /\ calls[2].resolved.ok
    /\ ~calls[5].resolved.ok


\* A file the loader accepts: its parse yields a mapping of sets.
IsValidFile(dir, f) == dir[f].content.kind = "dict"

\* The sets a file defines.
SetsOf(dir, f) == dir[f].content.sets

\* The place of a file in the scan: YAML files before JSON files, each format
\* in listing order.
ScanRank(f) ==
    (IF FormatOf(f) = "json" THEN Len(listing) ELSE 0)
        + (CHOOSE i \in DOMAIN listing : listing[i] = f)

\* A file as the specification wants it: a mapping of set names to mappings
\* of task names to template strings.
IsWellFormedFile(dir, f) ==
    /\ dir[f].content.kind = "dict"
    /\ \A n \in DOMAIN dir[f].content.sets :
          /\ dir[f].content.sets[n].isMap
          /\ \A t \in DOMAIN dir[f].content.sets[n].tasks :
                dir[f].content.sets[n].tasks[t].isStr

\* C6 as stated: a malformed file is skipped without aborting the load:
\* whatever the scan order, every set a valid file defines is in the registry,
\* with exactly the contents of its definition (the last valid one in scan
\* order, if several valid files define the name).
C6_ValidSetsSurviveMalformedFiles ==
    \A f \in FileNames :
        IsWellFormedFile(snapshot, f) =>
            \A n \in DOMAIN SetsOf(snapshot, f) :
                /\ n \in DOMAIN custom_prompts
                /\ (\A g \in FileNames :
                        (IsWellFormedFile(snapshot, g) /\ n \in DOMAIN SetsOf(snapshot, g))
                            => ScanRank(g) <= ScanRank(f))
                    => custom_prompts[n] = SetsOf(snapshot, f)[n]

\* C18 as stated: a file with a top-level entry that is no set, or with a
\* template that is no string, is a load error for that file only: its sets
\* are neither listed nor resolvable (unless a well-formed file defines the
\* name too), and the sets of the well-formed files are as those files define
\* them.
C18_ShapeErrorsRejectFile ==
    /\ \A f \in FileNames :
          (IsValidFile(snapshot, f) /\ ~IsWellFormedFile(snapshot, f)) =>
              \A n \in DOMAIN SetsOf(snapshot, f) :
                  (\A g \in FileNames :
                      IsWellFormedFile(snapshot, g) => n \notin DOMAIN SetsOf(snapshot, g))
                    => /\ n \notin DOMAIN custom_prompts
                       /\ \A t \in AnalysisTasks :
                             ~GetCustomPrompt(custom_prompts, n, t, TextKwargs(<<"sample">>)).ok
    /\ \A g \in FileNames :
          IsWellFormedFile(snapshot, g) =>
              \A n \in DOMAIN SetsOf(snapshot, g) :
                  (\A h \in FileNames :
                      (IsWellFormedFile(snapshot, h) /\ n \in DOMAIN SetsOf(snapshot, h))
                          => ScanRank(h) <= ScanRank(g))
                    => (n \in DOMAIN custom_prompts
                          /\ custom_prompts[n] = SetsOf(snapshot, g)[n])

\* C7 as stated: when a file whose sets an earlier load registered is
\* malformed at the time of reload(), those sets are still in the registry
\* with their prior contents after the reload.
C7_ReloadKeepsSetsOfBrokenFile ==
    [][ Reload =>
          \A f \in FileNames :
              (IsValidFile(snapshot, f) /\ ~IsValidFile(files, f)) =>
                  \A n \in DOMAIN SetsOf(snapshot, f) :
                      (n \in DOMAIN custom_prompts
                          /\ custom_prompts[n] = SetsOf(snapshot, f)[n])
                        => (n \in DOMAIN custom_prompts'
                              /\ custom_prompts'[n] = custom_prompts[n]) ]_vars

\* C8: every set of the registry has exactly the task mapping of one
\* definition of its name, as one file held it when the registry was loaded.
C8_SetsComeFromOneDefinition ==
    \A n \in DOMAIN custom_prompts :
        \E f \in FileNames :
            /\ IsValidFile(snapshot, f)
            /\ n \in DOMAIN SetsOf(snapshot, f)
            /\ custom_prompts[n] = SetsOf(snapshot, f)[n]

\* After an edit and a reload, custom_v1 is defined by two files with
\* different task sets, and the registry holds the short one, whole.
C8_Witness ==
    /\ edits > 0
    /\ reloads > 0
    /\ \E f, g \in FileNames :
        /\ IsValidFile(snapshot, f) /\ IsValidFile(snapshot, g)
        /\ "custom_v1" \in DOMAIN SetsOf(snapshot, f)
        /\ "custom_v1" \in DOMAIN SetsOf(snapshot, g)
        /\ SetsOf(snapshot, f)["custom_v1"] = CustomV1
        /\ SetsOf(snapshot, g)["custom_v1"] = CustomV1Short
    /\ "custom_v1" \in DOMAIN custom_prompts
    /\ custom_prompts["custom_v1"] = CustomV1Short

C5_TempFileRemovedOnExit == mpc = "done" => TempFile \notin disk

\* The override name of the agent, when one is set (a truthy custom_config).
HasCustomSelector == agent.custom_config \notin {"none", ""}

\* C11: resolution against a selector that is not registered fails with the
\* configuration-not-found error, resolution of a task that a registered set
\* or the built-in version lacks fails with the task-not-found error of that
\* namespace; the two outcomes differ and the analysis goes on to its request.
C11_LookupErrorKinds ==
    \A i \in 1..Len(calls) :
        LET c == calls[i]
            sel == agent.custom_config
        IN  /\ (HasCustomSelector /\ sel \notin DOMAIN custom_prompts) =>
                  /\ ~c.resolved.ok
                  /\ c.resolved.err = "ValueError"
                  /\ c.resolved.msg = "Configuration not found"
            /\ (HasCustomSelector /\ sel \in DOMAIN custom_prompts
                  /\ c.task \notin DOMAIN custom_prompts[sel].tasks) =>
                  /\ ~c.resolved.ok
                  /\ c.resolved.err = "ValueError"
                  /\ c.resolved.msg = "Task not found in configuration"
            /\ (~HasCustomSelector /\ c.task \notin DOMAIN LoadTemplates[agent.prompt_version]) =>
                  /\ ~c.resolved.ok
                  /\ c.resolved.err = "ValueError"
                  /\ c.resolved.msg = "No template found for task"
            /\ Len(c.user) > 0

\* An agent whose selector names no registered set has issued all five
\* requests, each after a configuration-not-found failure.
C11_Witness ==
    /\ agent.custom_config = "nonexistent_v9"
    /\ Len(calls) = 5
    /\ \A i \in 1..5 : calls[i].resolved.msg = "Configuration not found"

\* What a template gives for the text of a call.
Expanded(tpl, text) == FormatSegs(tpl, [k \in {"text"} |-> text])

\* The template asks for nothing but the text.
OnlyTextPlaceholders(tpl) == \A k \in 1..Len(tpl) : tpl[k].k = "ph" => tpl[k].s = "text"

\* The system text an override set supplies, if it has a usable one.
OverrideHasSystem ==
    /\ agent.custom_config \in DOMAIN custom_prompts
    /\ "system" \in DOMAIN custom_prompts[agent.custom_config].tasks
    /\ custom_prompts[agent.custom_config].tasks["system"].isStr
    /\ \A k \in 1..Len(custom_prompts[agent.custom_config].tasks["system"].tpl) :
          custom_prompts[agent.custom_config].tasks["system"].tpl[k].k = "lit"

\* C12: with a custom selector set, every task prompt and the system prompt
\* come from the override set and never from the built-in version given with
\* it; the built-in version is used only when no custom selector is set.
C12_OverrideTakesPrecedence ==
    \A i \in 1..Len(calls) :
        LET c == calls[i]
            builtin == LoadTemplates[agent.prompt_version]
        IN  IF HasCustomSelector
            THEN /\ c.resolved.ok =>
                      /\ agent.custom_config \in DOMAIN custom_prompts
                      /\ c.task \in DOMAIN custom_prompts[agent.custom_config].tasks
                      /\ OnlyTextPlaceholders(custom_prompts[agent.custom_config].tasks[c.task].tpl)
                      /\ c.user = Expanded(custom_prompts[agent.custom_config].tasks[c.task].tpl, c.text)
                 /\ c.task \in DOMAIN builtin => c.user # Expanded(builtin[c.task], c.text)
                 /\ c.system =
                      IF OverrideHasSystem
                      THEN Expanded(custom_prompts[agent.custom_config].tasks["system"].tpl, <<>>)
                      ELSE <<"You are an expert academic researcher analyzing scientific papers.">>
            ELSE /\ c.resolved.ok =>
                      /\ c.task \in DOMAIN builtin
                      /\ c.user = Expanded(builtin[c.task], c.text)
                 /\ c.system = Expanded(builtin["system"], <<>>)

\* An agent constructed with both v3_structured and custom_v1 has sent the
\* custom_v1 summary prompt.
C12_Witness ==
    /\ agent.prompt_version = "v3_structured"
    /\ agent.custom_config = "custom_v1"
    /\ Len(calls) >= 1
    /\ calls[1].user = <<"custom_v1 ", "summary", " Text: ">> \o calls[1].text

\* C13: the system message of every request is a non-empty string: the
\* "system" entry of the selected set when it has a usable one, and otherwise
\* the fixed generic string; the request is issued in both cases.
C13_SystemPromptFallsBack ==
    \A i \in 1..Len(calls) :
        LET c == calls[i]
            usable == IF HasCustomSelector THEN OverrideHasSystem
                      ELSE "system" \in DOMAIN LoadTemplates[agent.prompt_version]
        IN  /\ Len(c.system) > 0
            /\ ~usable =>
                 c.system = <<"You are an expert academic researcher analyzing scientific papers.">>
            /\ (usable /\ ~HasCustomSelector) =>
                 c.system = Expanded(LoadTemplates[agent.prompt_version]["system"], <<>>)

\* Under the roleplay set, which has no system entry, a request went out with
\* the generic system message and has returned.
C13_Witness ==
    /\ agent.custom_config = "roleplay"
    /\ Len(calls) >= 1
    /\ calls[1].returned
    /\ calls[1].system = <<"You are an expert academic researcher analyzing scientific papers.">>

\* The state part of C14: never more than five requests, no task twice, and
\* an analysis that has built its five entries has made exactly five requests,
\* all returned, whatever their outcomes.
C14_FiveCalls ==
    /\ Len(calls) <= 5
    /\ \A i, j \in 1..Len(calls) : calls[i].task = calls[j].task => i = j
    /\ pc \in {"metadata", "done"} =>
         /\ Len(calls) = 5
         /\ \A i \in 1..5 : calls[i].returned

\* C14: per document the splitter runs once (the chunks never change once the
\* analysis has them) and each of the five tasks issues exactly one request,
\* five in total, with no second request after a failed one.
C14_OneSplitFiveCalls ==
    /\ []C14_FiveCalls
    /\ [][pc # "idle" => chunks' = chunks]_vars

\* An analysis has returned after five requests of which the second failed.
C14_Witness ==
    /\ pc = "done"
    /\ Len(calls) = 5
    /\ calls[2].outcome = "raise"
    /\ calls[3].outcome = "content"
    /\ Len(chunks) = 2

\* C19: without a non-empty API key the construction of the agent fails: no
\* agent is ready, and neither the splitter nor the completion service is
\* ever called.
C19_NoAgentWithoutApiKey ==
    api_key \in {"none", "empty"} =>
        /\ agent.state \in {"none", "failed"}
        /\ pc = "idle"
        /\ chunks = <<>>
        /\ calls = <<>>
        /\ inflight = NoCall

\* A construction with an empty key has failed.
C19_Witness ==
    /\ api_key = "empty"
    /\ agent.state = "failed"
    /\ calls = <<>>

\* The lines of the response the parser was given, each stripped.
StrippedLines ==
    LET lines == SplitLines(parsed.response, <<>>)
    IN  [i \in 1..Len(lines) |-> Strip(lines[i])]

\* A stripped line that starts with a quote mark, a hyphen, an asterisk, or a
\* digit from 1 to 9 followed by a period.
StartsWithMarker(l) ==
    /\ Len(l) >= 1
    /\ \/ l[1] \in {"\"", "-", "*"}
       \/ /\ Len(l) >= 2
          /\ l[1] \in {"1", "2", "3", "4", "5", "6", "7", "8", "9"}
          /\ l[2] = "."

\* C15 as stated: a line is treated as a bullet item if and only if its
\* stripped form starts with a quote mark, a hyphen, an asterisk, or a digit
\* from 1 to 9 followed by a period.
C15_BulletRecognition ==
    parsed.done =>
        \A i \in 1..Len(StrippedLines) :
            parsed.marked[i] <=> StartsWithMarker(StrippedLines[i])

\* C16: the parsed list is never empty: when no line of the response
\* qualifies as a bullet it is the one-element list of the whole trimmed
\* response, and otherwise it is that same list or a list of non-empty items.
C16_NeverEmptyList ==
    parsed.done =>
        /\ Len(parsed.result) >= 1
        /\ (\A i \in 1..Len(parsed.marked) : ~parsed.marked[i]) =>
              parsed.result = <<Strip(raw)>>
        /\ \/ parsed.result = <<Strip(raw)>>
           \/ \A k \in 1..Len(parsed.result) : Len(parsed.result[k]) > 0

\* Content in blanks and a line break, without a marker on any line: the
\* result is the trimmed content as one item.
C16_Witness ==
    /\ parsed.done
    /\ raw = <<" ", "A", " ", "\n", "A", " ", "-", " ", "B", "\n">>
    /\ parsed.result = << <<"A", " ", "\n", "A", " ", "-", " ", "B">> >>

\* A marked line without its leading marker and the blanks after it.
WithoutMarker(l) ==
    LStripChars(IF l[1] \in {"\"", "-", "*"} THEN Tail(l) ELSE Tail(Tail(l)), {" "})

RECURSIVE ItemsOf(_, _)
\* The contents of the marked lines, in line order, the empty ones left out.
ItemsOf(ls, marks) ==
    IF Len(ls) = 0 THEN <<>>
    ELSE (IF Head(marks) /\ Len(WithoutMarker(Head(ls))) > 0
          THEN <<WithoutMarker(Head(ls))>> ELSE <<>>)
         \o ItemsOf(Tail(ls), Tail(marks))

\* C17 as stated: when at least one line yields a non-empty item, the parsed
\* list is exactly the contents of the qualifying lines without their markers,
\* in the order of the lines.
C17_ItemsAreMarkerStripped ==
    parsed.done =>
        LET items == ItemsOf(StrippedLines, parsed.marked)
        IN  Len(items) > 0 => parsed.result = items

\* C23: no step of an analysis changes the template registry: the override
\* mapping of prompt_config and the process-wide default template set are
\* after each step what they were before it, and no step invokes reload().
C23_AnalysisLeavesRegistryUnchanged ==
    [][ (pc # pc' \/ calls # calls' \/ analysis # analysis')
          => /\ custom_prompts' = custom_prompts
             /\ default_prompts' = default_prompts
             /\ reloads' = reloads
             /\ files' = files ]_vars

\* An analysis under an override set has returned and the registry is the one
\* the process loaded at import.
C23_Witness ==
    /\ pc = "done"
    /\ agent.custom_config = "custom_v1"
    /\ Len(calls) = 5
    /\ \A i \in 1..5 : calls[i].resolved.ok
    /\ custom_prompts = LoadCustomPrompts(SampleFiles, SampleListing)
    /\ default_prompts = "v2_detailed"
    /\ reloads = 0

\* C24: the dict analyze_paper returns has exactly the six entries; summary
\* and methodology are strings, key_findings, contributions and limitations
\* are non-empty lists of strings, and metadata is the caller's metadata.
C24_ResultShape ==
    pc = "done" =>
        /\ DOMAIN analysis =
             {"summary", "key_findings", "methodology", "contributions", "limitations", "metadata"}
        /\ \A t \in {"summary", "methodology"} : analysis[t].kind = "str"
        /\ \A t \in {"key_findings", "contributions", "limitations"} :
              /\ analysis[t].kind = "list"
              /\ Len(analysis[t].list) >= 1
        /\ analysis["metadata"].kind = "meta"
        /\ analysis["metadata"].str = <<metadata>>

\* A returned analysis whose key_findings request failed and whose
\* contributions request gave two bullets.
C24_Witness ==
    /\ pc = "done"
    /\ calls[2].outcome = "raise"
    /\ calls[4].outcome = "content"
    /\ analysis["key_findings"].kind = "list"
    /\ Len(analysis["key_findings"].list) = 1
    /\ analysis["contributions"].list = << <<"A">>, <<"B">> >>
    /\ analysis["metadata"].str = <<"pages=12">>

\* The position in the document of a routed chunk (chunk texts differ by position).
PositionOf(c) == CHOOSE i \in 1..Len(chunks) : chunks[i] = c

\* C25: for every task and every chunk count, the routed selection consists
\* of chunks of the document at strictly increasing positions, so none occurs
\* twice; with no chunks every task selects nothing and its text is empty.
C25_RoutingIsSubsequence ==
    /\ \A t \in {"summary", "key_findings", "methodology", "contributions", "limitations"} :
          LET r == RoutedChunks(t, chunks)
          IN  /\ \A k \in 1..Len(r) : \E i \in 1..Len(chunks) : chunks[i] = r[k]
              /\ \A k \in 1..(Len(r) - 1) : PositionOf(r[k]) < PositionOf(r[k + 1])
              /\ Len(chunks) = 0 => r = <<>>
    /\ \A i \in 1..Len(calls) :
          /\ calls[i].text = Join(<<" ">>, RoutedChunks(calls[i].task, chunks))
          /\ Len(chunks) = 0 => calls[i].text = <<>>

\* An analysis of a document without chunks has sent all five requests, each
\* with the empty text.
C25_Witness ==
    /\ agent.state = "ready"
    /\ pc = "done"
    /\ Len(chunks) = 0
    /\ Len(calls) = 5
    /\ \A i \in 1..5 : calls[i].text = <<>>

\* C26: when a custom selector is set and its resolution fails for a task, the
\* prompt sent is the generic fallback string and not the template of the
\* built-in version the agent was constructed with.
C26_NoBuiltinFallback ==
    \A i \in 1..Len(calls) :
        (HasCustomSelector /\ ~calls[i].resolved.ok) =>
            /\ calls[i].user = <<"Analyze this text for ", calls[i].task, ": ">> \o calls[i].text
            /\ calls[i].task \in DOMAIN LoadTemplates[agent.prompt_version] =>
                 calls[i].user # Expanded(LoadTemplates[agent.prompt_version][calls[i].task],
                                          calls[i].text)

\* An agent with v3_structured and the roleplay set: the summary fails on its
\* placeholder, key_findings on its template type, contributions on the
\* missing task, and each time the generic prompt went out.
C26_Witness ==
    /\ agent.prompt_version = "v3_structured"
    /\ agent.custom_config = "roleplay"
    /\ Len(calls) = 5
    /\ calls[1].resolved.err = "KeyError"
    /\ calls[2].resolved.err = "AttributeError"
    /\ calls[4].resolved.err = "ValueError"
    /\ calls[1].user = <<"Analyze this text for ", "summary", ": ">> \o calls[1].text

\* C27: only a file the validator created is ever deleted: the validation
\* result of a local-file input carries no temp_file, every step keeps the
\* user's input file on disk, and the only file a step removes is the
\* temporary download.
C27_UserFileNeverDeleted ==
    /\ [](validation_result.input_type = "file" => validation_result.temp_file = "none")
    /\ [][ /\ (UserFile \in disk => UserFile \in disk')
           /\ (disk \ disk') \subseteq {TempFile} ]_vars

\* main has finished the analysis of a valid local file through its finally
\* clause and the file is still there.
C27_Witness ==
    /\ mpc = "done"
    /\ cli.input_kind = "file"
    /\ validation_result.bound
    /\ validation_result.is_valid
    /\ validation_result.temp_file = "none"
    /\ pc = "done"
    /\ UserFile \in disk

\* C28: a completion request exists only in a run of main whose input was
\* valid, whose extraction returned text, whose --analyze flag is set and
\* whose API key is non-empty; on every other path no request is made.
C28_CallsOnlyWhenAsked ==
    Len(calls) > 0 =>
        /\ ~cli.list_prompts
        /\ cli.format_ok
        /\ validation_result.bound
        /\ validation_result.is_valid
        /\ cleaned_text # "unset"
        /\ cli.analyze
        /\ api_key = "set"

\* main has finished after an analysis of a downloaded paper made its five
\* requests.
C28_Witness ==
    /\ mpc = "done"
    /\ cli.input_kind = "url"
    /\ cli.analyze
    /\ api_key = "set"
    /\ validation_result.is_valid
    /\ Len(calls) = 5

\* The files that define set n, as the load read them.
DefinersOf(n) == {f \in FileNames : IsValidFile(snapshot, f) /\ n \in DOMAIN SetsOf(snapshot, f)}

\* C29: files are applied YAML first, then JSON, and a name defined more than
\* once has the whole mapping of its last definition in that order: the
\* registry has every defined name, each with exactly the mapping of the last
\* file that defines it, so a name defined in a YAML file and in a JSON file
\* has the JSON file's mapping and no task of the YAML one besides.
C29_LaterDefinitionReplaces ==
    /\ DOMAIN custom_prompts =
          UNION {DOMAIN SetsOf(snapshot, f) : f \in {g \in FileNames : IsValidFile(snapshot, g)}}
    /\ \A n \in DOMAIN custom_prompts :
          \A f \in DefinersOf(n) :
              (\A g \in DefinersOf(n) : ScanRank(g) <= ScanRank(f))
                  => custom_prompts[n] = SetsOf(snapshot, f)[n]
    /\ \A n \in DOMAIN custom_prompts :
          \A y, j \in DefinersOf(n) :
              (FormatOf(y) = "yaml" /\ FormatOf(j) = "json")
                  => /\ custom_prompts[n] = SetsOf(snapshot, j)[n]
                     /\ DOMAIN custom_prompts[n].tasks = DOMAIN SetsOf(snapshot, j)[n].tasks

\* The directory lists the JSON file first; a YAML file defines custom_v1 with
\* six tasks and the JSON file defines it with two: after a reload the
\* registry has the two.
C29_Witness ==
    /\ listing[1] = "c.json"
    /\ IsValidFile(snapshot, "c.json")
    /\ reloads > 0
    /\ "custom_v1" \in DOMAIN SetsOf(snapshot, "c.json")
    /\ SetsOf(snapshot, "c.json")["custom_v1"] = CustomV1Short
    /\ \E y \in {"a.yaml", "b.yaml"} :
          /\ IsValidFile(snapshot, y)
          /\ "custom_v1" \in DOMAIN SetsOf(snapshot, y)
          /\ SetsOf(snapshot, y)["custom_v1"] = CustomV1
    /\ DOMAIN custom_prompts["custom_v1"].tasks = {"summary", "limitations"}

\* C30 as stated: marker stripping removes only the marker: every line
\* treated as a bullet whose content is not empty gives an item that is the
\* stripped line without its one leading marker and the blanks after it,
\* every character of the content kept, also when the content begins with a
\* digit, a period, a hyphen, an asterisk or a quote mark.
C30_OnlyMarkerRemoved ==
    parsed.done =>
        \A i \in 1..Len(StrippedLines) :
            (parsed.marked[i] /\ Len(WithoutMarker(StrippedLines[i])) > 0) =>
                \E k \in 1..Len(parsed.result) :
                    parsed.result[k] = WithoutMarker(StrippedLines[i])

\* C22: two resolutions with the same task, the same selector (version and
\* override name) and the same text give the same outcome and the same
\* prompt, whatever set_default_version did before or between them.
C22_ResolutionIsRepeatable ==
    \A i, j \in 1..Len(resolutions) :
        ( /\ resolutions[i].task = resolutions[j].task
          /\ resolutions[i].version = resolutions[j].version
          /\ resolutions[i].custom = resolutions[j].custom
          /\ resolutions[i].text = resolutions[j].text )
            => /\ resolutions[i].resolved = resolutions[j].resolved
               /\ resolutions[i].user = resolutions[j].user

\* The v1_basic summary prompt was resolved, set_default_version(experimental)
\* was called, and the same resolution was made again with the same result.
C22_Witness ==
    /\ Len(resolutions) = 2
    /\ resolutions[1].task = "summary" /\ resolutions[2].task = "summary"
    /\ resolutions[1].version = "v1_basic" /\ resolutions[2].version = "v1_basic"
    /\ resolutions[1].custom = "none" /\ resolutions[2].custom = "none"
    /\ resolutions[1].text = resolutions[2].text
    /\ resolutions[1].default = "v2_detailed"
    /\ resolutions[2].default = "experimental"
    /\ resolutions[1].resolved.ok
    /\ resolutions[1].user = resolutions[2].user

\* C21 as stated: every splitter the program chunks a document with, the
\* agent's and the one of compare_prompts, works through the separators
\* paragraph break, line break, period+space, word boundary, raw cut.
C21_EverySplitterHasThePriorityOrder ==
    splitter # NoSplitter =>
        EffectiveSeparators(splitter) = <<"\n\n", "\n", ". ", " ", "">>

====
